---- MODULE Spec2Model ----
(***************************************************************************)
(* A model of lambda.cpp: the closures, the two callable objects, the      *)
(* container numbers<T> and the driver main.                               *)
(*                                                                         *)
(* Every operation of the file is one action.  The order in which the      *)
(* actions run is given by `mode':                                         *)
(*   "main"    the statements of main, in program order (MainScript);      *)
(*   "find", "sort", "count"                                               *)
(*             the statements of one demo of main, run on inputs drawn     *)
(*             from bounded sets instead of the literals of main;          *)
(*   "strings", "value", "mutable", "ref", "numbers"                       *)
(*             the closures / the container of one demo, called by a       *)
(*             client in any order with arguments from bounded sets.       *)
(* Standard output is the sequence `out' of finished lines and the line    *)
(* `cur' being written; a line is the sequence of the strings inserted     *)
(* with operator<<.                                                        *)
(***************************************************************************)
EXTENDS Integers, Sequences, FiniteSets, TLC

VARIABLES
    variant,      \* the build: USE_LAMBDA_EXPRESSION or USE_FUNCTION_OBJECT
    mode,         \* who drives the operations (see above)
    pc,           \* index of the next statement of the script (scripted modes)
    ar,           \* int ar[]
    n,            \* int n
    found,        \* int* found, as an index into ar; Len(ar)+1 is ar+10 (end)
    msg,          \* std::string msg
    number,       \* int number
    capt_print,   \* closure [number]
    number2,      \* int number2
    capt_print2,  \* closure [number] mutable
    number3,      \* int number3, aliased by the closure [&number3]
    target,       \* int target
    count,        \* int count, aliased by the closure [&count,target]
    count_less,   \* closure [&count,target]: its by-value member target
    data,         \* int data[]
    it,           \* position of std::for_each in data
    ints,         \* numbers<int> ints: its member data
    out,          \* std::cout: the finished lines
    cur           \* std::cout: the line being written

vars == << variant, mode, pc, ar, n, found, msg, number, capt_print, number2,
           capt_print2, number3, target, count, count_less, data, it, ints,
           out, cur >>

-----------------------------------------------------------------------------
(* Bounds of the model *)

\* longest input sequence drawn for the demos run on arbitrary inputs
MaxLen == 3
\* most finished output lines in the modes where a client calls in any order
MaxOut == 3
\* most strings on the unfinished line before a client may call print_all
MaxCur == 4

\* values of the elements of the drawn sequences
Elems == {-4, -2, 0, 2, 3}
\* nonzero divisors (n == 0 is a precondition violation of x % n)
Divisors == {1, 4, -2, 3, 7}
\* thresholds for count_less
Thresholds == {-4, 0, 3, 5}
\* values a client assigns to the int variables
IntInputs == {0, 123, 456}
\* strings a client passes
StrInputs == {"", "Ben", "Bingshiue"}

RECURSIVE SeqsUpTo(_, _)
SeqsUpTo(S, k) ==
    IF k = 0 THEN {<< >>}
    ELSE LET shorter == SeqsUpTo(S, k - 1)
         IN  shorter \cup {Append(s, x) : s \in shorter, x \in S}

-----------------------------------------------------------------------------
(* Literals of main *)

ArLiteral == << 9, 7, 5, 3, 1, -2, -4, -6, -8, 0 >>
DataLiteral == << 1, 3, 5, 7, 2, 4, 6, 8 >>

Variants == {"USE_LAMBDA_EXPRESSION", "USE_FUNCTION_OBJECT"}

SampleSeqs == SeqsUpTo(Elems, MaxLen)

-----------------------------------------------------------------------------
(* int arithmetic *)

\* x % y of C++ for y # 0: the quotient truncates toward zero, so the
\* remainder has the sign of x.
CRem(x, y) ==
    LET ax == IF x < 0 THEN -x ELSE x
        ay == IF y < 0 THEN -y ELSE y
        r  == ax % ay
    IN  IF x < 0 THEN -r ELSE r

-----------------------------------------------------------------------------
(* Callable objects and closures of the search and sort demos *)

\* can_divide(n): the object with member n_
can_divide(n0) == [n_ |-> n0]
\* can_divide::operator()(int x) const
can_divide_call(obj, x) == CRem(x, obj.n_) = 0

\* [n](int x){return x % n == 0;}: the closure with the copy of n
lambda_divide(n0) == [n |-> n0]
\* (variant of the next definition: the test negated, return x % n != 0)
lambda_divide_call_negated(c, x) == CRem(x, c.n) # 0
lambda_divide_call(c, x) == CRem(x, c.n) = 0

\* the predicate handed to find_if by the build `v'
Pred(v, n0, x) ==
    IF v = "USE_FUNCTION_OBJECT"
    THEN can_divide_call(can_divide(n0), x)
    ELSE lambda_divide_call(lambda_divide(n0), x)

\* std::find_if(ar, ar+Len, pred): the first position whose element satisfies
\* pred, Len+1 (the end) when there is none
RECURSIVE find_from(_, _, _, _)
find_from(s, i, v, n0) ==
    IF i > Len(s) THEN i
    ELSE IF Pred(v, n0, s[i]) THEN i
    ELSE find_from(s, i + 1, v, n0)

find_if(s, v, n0) == find_from(s, 1, v, n0)

\* (variant of the next definition: the values compared, not the magnitudes)
abs_less_call_noabs(x, y) == x < y
\* abs_less::operator()(int x, int y) const
abs_less_call(x, y) ==
    (IF x > 0 THEN x ELSE -x) < (IF y > 0 THEN y ELSE -y)

\* (variant of the next definition: <= for <)
lambda_abs_less_call_le(x, y) ==
    (IF x > 0 THEN x ELSE -x) <= (IF y > 0 THEN y ELSE -y)
\* [](int x, int y){return ( x > 0 ? x : -x ) < ( y > 0 ? y : -y );}
lambda_abs_less_call(x, y) ==
    (IF x > 0 THEN x ELSE -x) < (IF y > 0 THEN y ELSE -y)

\* the comparator handed to sort by the build `v'
Comp(v, x, y) ==
    IF v = "USE_FUNCTION_OBJECT"
    THEN abs_less_call(x, y)
    ELSE lambda_abs_less_call(x, y)

RemoveAt(s, i) == SubSeq(s, 1, i - 1) \o SubSeq(s, i + 1, Len(s))

\* std::sort(first, last, comp): any arrangement of the elements in which no
\* element is ordered by comp before an element that precedes it.  The
\* relative order of elements comp does not order is unspecified, so the
\* result is a set of outcomes: repeatedly take any element that no
\* remaining element is ordered before.
RECURSIVE sort_outcomes(_, _)
sort_outcomes(s, v) ==
    IF s = << >> THEN {<< >>}
    ELSE LET minimal == {i \in 1..Len(s) :
                            \A j \in 1..Len(s) : ~Comp(v, s[j], s[i])}
         IN  UNION {{<< s[i] >> \o t : t \in sort_outcomes(RemoveAt(s, i), v)}
                    : i \in minimal}

\* printing the array: for(idx...) cout << ar[idx] << " "  (function object
\* build) and for_each(ar, ar+10, [](int x){ cout << x << " ";})
RECURSIVE loop_print(_, _)
loop_print(s, idx) ==
    IF idx > Len(s) THEN << >>
    ELSE << ToString(s[idx]), " " >> \o loop_print(s, idx + 1)

RECURSIVE for_each_print(_)
for_each_print(s) ==
    IF s = << >> THEN << >>
    ELSE << ToString(Head(s)), " " >> \o for_each_print(Tail(s))

print_array(v, s) ==
    IF v = "USE_FUNCTION_OBJECT" THEN loop_print(s, 1) ELSE for_each_print(s)

-----------------------------------------------------------------------------
(* Closures stored in variables *)

\* println: the strings written before std::endl
println_call(str) == << str >>

\* (variant of the next definition: the result accumulates in msg)
polite_call_leak(str) == msg \o str \o " SIR "
\* polite
polite_call(str) == str \o " SIR "

\* [number]: the closure with the copy of number
make_capt_print(number0) == [number |-> number0]
\* (variant of the next definition: number captured by reference)
capt_print_call_byref(c) == << ToString(number), " Captured " >>
\* capt_print(): the strings written before endl
capt_print_call(c) == << ToString(c.number), " Captured " >>

\* [number]() mutable
make_capt_print2(number0) == [number |-> number0]
\* (variant of the next definition: ++number for number++)
capt_print2_call_preinc(c) ==
    [ text    |-> << ToString(c.number + 1), " Captured " >>,
      closure |-> [c EXCEPT !.number = c.number + 1] ]
\* capt_print2(): the strings written before endl, and the closure afterwards
capt_print2_call(c) ==
    [ text    |-> << ToString(c.number), " Captured " >>,
      closure |-> [c EXCEPT !.number = c.number + 1] ]

\* (variant of the next definition: number3 captured by value, mutable)
capt_print3_call_bycopy(ref) ==
    [ text |-> << ToString(ref), " Captured " >>,
      ref  |-> ref ]
\* capt_print3() on the variable it aliases: the strings written before the
\* newline, and the aliased variable afterwards
capt_print3_call(ref) ==
    [ text |-> << ToString(ref), " Captured " >>,
      ref  |-> ref + 1 ]

\* [&count,target]: the by-value member
make_count_less(target0) == [target |-> target0]
\* (variants of the next definition: <= for <; count captured by value)
count_less_call_le(c, ref, x) == IF x <= c.target THEN ref + 1 ELSE ref
count_less_call_bycopy(c, ref, x) == ref
\* count_less(x) on the counter it aliases: the counter afterwards
count_less_call(c, ref, x) == IF x < c.target THEN ref + 1 ELSE ref

-----------------------------------------------------------------------------
(* numbers<T> *)

\* numbers<T>::print_one: the strings written
print_one(x) == << ToString(x), " " >>

\* numbers<T>::add
add(d, x) == Append(d, x)

\* (variant of the next definition: the elements visited last to first)
RECURSIVE print_all_reversed(_)
print_all_reversed(d) ==
    IF d = << >> THEN << >>
    ELSE print_all_reversed(Tail(d)) \o print_one(Head(d))
\* numbers<T>::print_all: for_each over data with [this](T x){print_one(x);}
RECURSIVE print_all(_)
print_all(d) ==
    IF d = << >> THEN << >>
    ELSE print_one(Head(d)) \o print_all(Tail(d))

-----------------------------------------------------------------------------
(* The statements of main, and of its demos run alone *)

\* a statement: the operation, its source line, and its literal arguments
St(op, line, i, s, q) == [op |-> op, line |-> line, i |-> i, s |-> s, q |-> q]

MainScript == <<
    St("find",            99,  0,   "", << >>),
    St("print_found",     103, 0,   "", << >>),
    St("sort",            117, 0,   "", << >>),
    St("print_ar",        119, 0,   "", << >>),
    St("endl",            122, 0,   "", << >>),
    St("msg_polite",      135, 0,   "Ben", << >>),
    St("println_msg",     136, 0,   "", << >>),
    St("println_polite",  137, 0,   "Bingshiue", << >>),
    St("decl_number",     146, 123, "", << >>),
    St("assign_n",        148, 456, "", << >>),
    St("call_capt_print", 149, 0,   "", << >>),
    St("endl",            151, 0,   "", << >>),
    St("decl_number2",    158, 123, "", << >>),
    St("call_capt_print2", 160, 0,  "", << >>),
    St("call_capt_print2", 161, 0,  "", << >>),
    St("call_capt_print2", 162, 0,  "", << >>),
    St("print_number2",   163, 0,   "", << >>),
    St("endl",            165, 0,   "", << >>),
    St("decl_number3",    174, 123, "", << >>),
    St("call_capt_print3", 178, 0,  "", << >>),
    St("call_capt_print3", 179, 0,  "", << >>),
    St("call_capt_print3", 180, 0,  "", << >>),
    St("print_number3",   181, 0,   "", << >>),
    St("assign_number3",  182, 456, "", << >>),
    St("call_capt_print3", 183, 0,  "", << >>),
    St("print_number3",   184, 0,   "", << >>),
    St("endl",            186, 0,   "", << >>),
    St("decl_count",      189, 5,   "", DataLiteral),
    St("for_each_count",  196, 0,   "", << >>),
    St("print_count",     197, 0,   "", << >>),
    St("endl",            199, 0,   "", << >>),
    St("decl_ints",       208, 0,   "", << >>),
    St("add",             209, 1,   "", << >>),
    St("add",             209, 2,   "", << >>),
    St("add",             209, 3,   "", << >>),
    St("print_all",       210, 0,   "", << >>),
    St("endl",            212, 0,   "", << >>) >>

\* lines 95-105 alone
FindScript == SubSeq(MainScript, 1, 2)
\* lines 108-122 alone
SortScript == SubSeq(MainScript, 3, 5)
\* lines 196-199 alone
CountScript == SubSeq(MainScript, 29, 31)

ScriptedModes == {"main", "find", "sort", "count"}
FreeModes == {"strings", "value", "mutable", "ref", "numbers"}
Modes == ScriptedModes \cup FreeModes

Script ==
    CASE mode = "main"  -> MainScript
      [] mode = "find"  -> FindScript
      [] mode = "sort"  -> SortScript
      [] mode = "count" -> CountScript
      [] OTHER          -> << >>

\* the operations a client of one demo may call, in any order
FreeOps ==
    CASE mode = "strings" -> {"msg_polite", "println_msg", "println_polite"}
      [] mode = "value"   -> {"assign_n", "assign_number", "call_capt_print"}
      [] mode = "mutable" -> {"call_capt_print2", "print_number2"}
      [] mode = "ref"     -> {"call_capt_print3", "print_number3",
                              "assign_number3"}
      [] mode = "numbers" -> {"add", "print_all", "endl"}
      [] OTHER            -> {}

\* the operation `op' is the next one to run
Sched(op) ==
    IF mode \in ScriptedModes
    THEN pc <= Len(Script) /\ Script[pc].op = op
    ELSE op \in FreeOps /\ Len(out) < MaxOut /\ Len(cur) <= MaxCur

\* the int argument of the next operation
IntArg(op) ==
    IF mode \in ScriptedModes THEN {Script[pc].i}
    ELSE IF op = "add" THEN Elems ELSE IntInputs

\* the string argument of the next operation
StrArg == IF mode \in ScriptedModes THEN {Script[pc].s} ELSE StrInputs

\* control passes to the next statement
Advance ==
    /\ pc' = IF mode \in ScriptedModes THEN pc + 1 ELSE pc
    /\ UNCHANGED << variant, mode >>

\* main has returned (line 214)
Done == mode = "main" /\ pc > Len(MainScript)

searchVars == << ar, n, found >>
valueVars == << number, capt_print, number2, capt_print2 >>
countVars == << target, count, count_less, data, it >>
io == << out, cur >>

\* cout << (the strings of text) << endl
WriteLine(text) == out' = Append(out, cur \o text) /\ cur' = << >>

-----------------------------------------------------------------------------
Init ==
    /\ mode \in Modes
    /\ variant \in (IF mode \in {"main", "find", "sort"} THEN Variants
                    ELSE {"USE_LAMBDA_EXPRESSION"})
    /\ pc = 1
    /\ ar \in (CASE mode = "main" -> {ArLiteral}
                 [] mode \in {"find", "sort"} -> SampleSeqs \cup {ArLiteral}
                 [] OTHER -> {<< >>})
    /\ n \in (IF mode = "find" THEN Divisors ELSE {4})
    /\ found = 0
    /\ msg = ""
    /\ number \in (CASE mode = "value" -> {123}
                     [] mode = "mutable" -> IntInputs
                     [] OTHER -> {0})
    /\ capt_print = make_capt_print(number)
    /\ number2 = (IF mode = "mutable" THEN 123 ELSE 0)
    /\ capt_print2 = make_capt_print2(number)
    /\ number3 \in (IF mode = "ref" THEN IntInputs ELSE {0})
    /\ target \in (IF mode = "count" THEN Thresholds ELSE {0})
    /\ count = 0
    /\ count_less = make_count_less(target)
    /\ data \in (IF mode = "count" THEN SampleSeqs \cup {DataLiteral}
                 ELSE {<< >>})
    /\ it = 1
    /\ ints = << >>
    /\ out = << >>
    /\ cur = << >>

-----------------------------------------------------------------------------
(* Search and sort demo, lines 91-122 *)

Find ==
    /\ Sched("find")
    /\ found' = find_if(ar, variant, n)
    /\ Advance
    /\ UNCHANGED << ar, n, msg, valueVars, number3, countVars, ints, io >>

PrintFound ==
    /\ Sched("print_found")
    /\ IF found # Len(ar) + 1
       THEN WriteLine(<< ToString(ar[found]), " can be divided by ",
                         ToString(n) >>)
       ELSE UNCHANGED io
    /\ Advance
    /\ UNCHANGED << searchVars, msg, valueVars, number3, countVars, ints >>

Sort ==
    /\ Sched("sort")
    /\ ar' \in sort_outcomes(ar, variant)
    /\ Advance
    /\ UNCHANGED << n, found, msg, valueVars, number3, countVars, ints, io >>

PrintAr ==
    /\ Sched("print_ar")
    /\ cur' = cur \o print_array(variant, ar)
    /\ Advance
    /\ UNCHANGED << searchVars, msg, valueVars, number3, countVars, ints, out >>

Endl ==
    /\ Sched("endl")
    /\ WriteLine(<< >>)
    /\ Advance
    /\ UNCHANGED << searchVars, msg, valueVars, number3, countVars, ints >>

-----------------------------------------------------------------------------
(* Closures stored in variables, lines 130-137 *)

MsgPolite ==
    /\ Sched("msg_polite")
    /\ \E s \in StrArg : msg' = polite_call(s)
    /\ Advance
    /\ UNCHANGED << searchVars, valueVars, number3, countVars, ints, io >>

PrintlnMsg ==
    /\ Sched("println_msg")
    /\ WriteLine(println_call(msg))
    /\ Advance
    /\ UNCHANGED << searchVars, msg, valueVars, number3, countVars, ints >>

PrintlnPolite ==
    /\ Sched("println_polite")
    /\ \E s \in StrArg : WriteLine(println_call(polite_call(s)))
    /\ Advance
    /\ UNCHANGED << searchVars, msg, valueVars, number3, countVars, ints >>

-----------------------------------------------------------------------------
(* Capture by value, lines 146-165 *)

DeclNumber ==
    /\ Sched("decl_number")
    /\ \E v \in IntArg("decl_number") :
          /\ number' = v
          /\ capt_print' = make_capt_print(v)
    /\ Advance
    /\ UNCHANGED << searchVars, msg, number2, capt_print2, number3, countVars,
                    ints, io >>

AssignN ==
    /\ Sched("assign_n")
    /\ \E v \in IntArg("assign_n") : n' = v
    /\ Advance
    /\ UNCHANGED << ar, found, msg, valueVars, number3, countVars, ints, io >>

\* an assignment to number by the enclosing scope (main makes none)
AssignNumber ==
    /\ Sched("assign_number")
    /\ \E v \in IntArg("assign_number") : number' = v
    /\ Advance
    /\ UNCHANGED << searchVars, msg, capt_print, number2, capt_print2, number3,
                    countVars, ints, io >>

CallCaptPrint ==
    /\ Sched("call_capt_print")
    /\ WriteLine(capt_print_call(capt_print))
    /\ Advance
    /\ UNCHANGED << searchVars, msg, valueVars, number3, countVars, ints >>

DeclNumber2 ==
    /\ Sched("decl_number2")
    /\ \E v \in IntArg("decl_number2") : number2' = v
    /\ capt_print2' = make_capt_print2(number)
    /\ Advance
    /\ UNCHANGED << searchVars, msg, number, capt_print, number3, countVars,
                    ints, io >>

CallCaptPrint2 ==
    /\ Sched("call_capt_print2")
    /\ LET r == capt_print2_call(capt_print2)
       IN  /\ WriteLine(r.text)
           /\ capt_print2' = r.closure
    /\ Advance
    /\ UNCHANGED << searchVars, msg, number, capt_print, number2, number3,
                    countVars, ints >>

PrintNumber2 ==
    /\ Sched("print_number2")
    /\ WriteLine(<< "number2 = ", ToString(number2) >>)
    /\ Advance
    /\ UNCHANGED << searchVars, msg, valueVars, number3, countVars, ints >>

-----------------------------------------------------------------------------
(* Capture by reference, lines 174-186 *)

DeclNumber3 ==
    /\ Sched("decl_number3")
    /\ \E v \in IntArg("decl_number3") : number3' = v
    /\ Advance
    /\ UNCHANGED << searchVars, msg, valueVars, countVars, ints, io >>

CallCaptPrint3 ==
    /\ Sched("call_capt_print3")
    /\ LET r == capt_print3_call(number3)
       IN  /\ WriteLine(r.text)
           /\ number3' = r.ref
    /\ Advance
    /\ UNCHANGED << searchVars, msg, valueVars, countVars, ints >>

PrintNumber3 ==
    /\ Sched("print_number3")
    /\ WriteLine(<< "number3 = ", ToString(number3) >>)
    /\ Advance
    /\ UNCHANGED << searchVars, msg, valueVars, number3, countVars, ints >>

AssignNumber3 ==
    /\ Sched("assign_number3")
    /\ \E v \in IntArg("assign_number3") : number3' = v
    /\ Advance
    /\ UNCHANGED << searchVars, msg, valueVars, countVars, ints, io >>

-----------------------------------------------------------------------------
(* Several captures, lines 189-199 *)

DeclCount ==
    /\ Sched("decl_count")
    /\ \E v \in IntArg("decl_count") :
          /\ target' = v
          /\ count_less' = make_count_less(v)
    /\ data' = Script[pc].q
    /\ count' = 0
    /\ it' = 1
    /\ Advance
    /\ UNCHANGED << searchVars, msg, valueVars, number3, ints, io >>

\* std::for_each(data, data+8, count_less): one call of count_less, or the
\* return of for_each once every element has been visited
ForEachCount ==
    /\ Sched("for_each_count")
    /\ IF it <= Len(data)
       THEN /\ count' = count_less_call(count_less, count, data[it])
            /\ it' = it + 1
            /\ UNCHANGED << pc, variant, mode >>
       ELSE /\ Advance
            /\ UNCHANGED << count, it >>
    /\ UNCHANGED << searchVars, msg, valueVars, number3, target, count_less,
                    data, ints, io >>

PrintCount ==
    /\ Sched("print_count")
    /\ WriteLine(<< ToString(count), " Numbers ", "Less Than ",
                    ToString(target) >>)
    /\ Advance
    /\ UNCHANGED << searchVars, msg, valueVars, number3, countVars, ints >>

-----------------------------------------------------------------------------
(* numbers<int>, lines 208-212 *)

DeclInts ==
    /\ Sched("decl_ints")
    /\ ints' = << >>
    /\ Advance
    /\ UNCHANGED << searchVars, msg, valueVars, number3, countVars, io >>

Add ==
    /\ Sched("add")
    /\ mode \in FreeModes => Len(ints) < MaxLen
    /\ \E x \in IntArg("add") : ints' = add(ints, x)
    /\ Advance
    /\ UNCHANGED << searchVars, msg, valueVars, number3, countVars, io >>

PrintAll ==
    /\ Sched("print_all")
    /\ cur' = cur \o print_all(ints)
    /\ Advance
    /\ UNCHANGED << searchVars, msg, valueVars, number3, countVars, ints, out >>

-----------------------------------------------------------------------------
Next ==
    \/ Find
    \/ PrintFound
    \/ Sort
    \/ PrintAr
    \/ Endl
    \/ MsgPolite
    \/ PrintlnMsg
    \/ PrintlnPolite
    \/ DeclNumber
    \/ AssignN
    \/ AssignNumber
    \/ CallCaptPrint
    \/ DeclNumber2
    \/ CallCaptPrint2
    \/ PrintNumber2
    \/ DeclNumber3
    \/ CallCaptPrint3
    \/ PrintNumber3
    \/ AssignNumber3
    \/ DeclCount
    \/ ForEachCount
    \/ PrintCount
    \/ DeclInts
    \/ Add
    \/ PrintAll

Spec == Init /\ [][Next]_vars

-----------------------------------------------------------------------------
(* Properties *)

\* the text of an output line
RECURSIVE Render(_)
Render(line) == IF line = << >> THEN "" ELSE Head(line) \o Render(Tail(line))

Last(s) == s[Len(s)]
Mag(x) == IF x < 0 THEN -x ELSE x
\* d divides x: x is a multiple of d
Divides(d, x) == \E k \in (-Mag(x))..Mag(x) : k * d = x
Occurrences(s, x) == Cardinality({i \in DOMAIN s : s[i] = x})
IsPerm(s, t) ==
    /\ Len(s) = Len(t)
    /\ \A i \in DOMAIN s : Occurrences(s, s[i]) = Occurrences(t, s[i])
AbsSorted(s) == \A i \in 1..(Len(s) - 1) : Mag(s[i]) <= Mag(s[i + 1])
\* how many of the first k elements of s are below t
CountBelow(s, k, t) == Cardinality({i \in 1..k : s[i] < t})

\* the first k statements of main have run
MainPast(k) == mode = "main" /\ pc > k
\* a step that finishes one more output line
LineWritten == Len(out') = Len(out) + 1

\* find_if has returned and ar and n are still the ones it searched
AfterFind == \/ mode = "find" /\ pc > 1
             \/ mode = "main" /\ pc \in {2, 3}
\* for_each over data is running / has returned
InTraversal == mode \in {"main", "count"} /\ Sched("for_each_count")
AfterTraversal == \/ mode = "main" /\ pc > 29
                  \/ mode = "count" /\ pc > 1

\* the output of main, line by line
MainOutput == <<
    "-4 can be divided by 4",
    "0 1 -2 3 -4 5 -6 7 -8 9 ",
    "Ben SIR ",
    "Bingshiue SIR ",
    "123 Captured ",
    "",
    "123 Captured ",
    "124 Captured ",
    "125 Captured ",
    "number2 = 123",
    "",
    "123 Captured ",
    "124 Captured ",
    "125 Captured ",
    "number3 = 126",
    "456 Captured ",
    "number3 = 457",
    "",
    "4 Numbers Less Than 5",
    "",
    "1 2 3 " >>

-----------------------------------------------------------------------------
\* C1, as stated: once main has run count_less over {1,3,5,7,2,4,6,8} with
\* target 5, count is 3 and the line written reports 3.
C1_CountIsThree ==
    MainPast(30) => /\ count = 3
                    /\ Render(out[19]) = "3 Numbers Less Than 5"

\* C1, amended: once main has run count_less over {1,3,5,7,2,4,6,8} with
\* target 5, starting from count = 0, count is 4 (the elements 1, 3, 2, 4),
\* and the line written reports 4 numbers less than 5.
C1_CountIsFour ==
    /\ MainPast(29) => count = 4
    /\ MainPast(30) => Render(out[19]) = "4 Numbers Less Than 5"

C1_Reported == MainPast(30) /\ count = 4 /\ Len(out) = 19

-----------------------------------------------------------------------------
\* C2: in any interleaving of calls of capt_print3, reads of number3 and
\* assignments to number3, a call writes the current value of number3 and
\* then increments number3 itself, and a read writes the current value; in
\* main the lines are 123, 124, 125 Captured, number3 = 126, 456 Captured,
\* number3 = 457.
C2_Main ==
    MainPast(26) =>
        /\ Render(out[12]) = "123 Captured "
        /\ Render(out[13]) = "124 Captured "
        /\ Render(out[14]) = "125 Captured "
        /\ Render(out[15]) = "number3 = 126"
        /\ Render(out[16]) = "456 Captured "
        /\ Render(out[17]) = "number3 = 457"
        /\ number3 = 457

C2_Step ==
    LET inDemo == mode = "ref" \/ (mode = "main" /\ pc \in 20..26)
    IN  inDemo /\ LineWritten =>
            IF Head(Last(out')) = "number3 = "
            THEN /\ Render(Last(out')) = "number3 = " \o ToString(number3)
                 /\ number3' = number3
            ELSE /\ Render(Last(out')) = ToString(number3) \o " Captured "
                 /\ number3' = number3 + 1

C2_ReferenceCapture == [] C2_Main /\ [][C2_Step]_vars

C2_MainSequenceRun == MainPast(26) /\ number3 = 457 /\ Len(out) = 17

-----------------------------------------------------------------------------
\* C3: capt_print2 holds its own copy of number: its k-th call writes
\* V + k - 1 where V is the value of number, which no call changes; in main
\* the calls write 123, 124, 125, number and number2 stay 123 and the line
\* number2 = 123 is written.
C3_Main ==
    /\ MainPast(9) => number = 123
    /\ MainPast(13) => number2 = 123
    /\ MainPast(17) => /\ Render(out[7]) = "123 Captured "
                       /\ Render(out[8]) = "124 Captured "
                       /\ Render(out[9]) = "125 Captured "
                       /\ Render(out[10]) = "number2 = 123"

C3_AnyCalls ==
    mode = "mutable" =>
        LET calls == SelectSeq(out, LAMBDA l : Head(l) # "number2 = ")
            reads == SelectSeq(out, LAMBDA l : Head(l) = "number2 = ")
        IN  /\ \A k \in DOMAIN calls :
                  Render(calls[k]) = ToString(number + k - 1) \o " Captured "
            /\ \A k \in DOMAIN reads : Render(reads[k]) = "number2 = 123"
            /\ capt_print2.number = number + Len(calls)
            /\ number2 = 123

C3_MutableValueCapture == C3_Main /\ C3_AnyCalls

C3_ThreeCallsMade ==
    MainPast(17) /\ capt_print2.number = 126 /\ number = 123 /\ Len(out) = 10

-----------------------------------------------------------------------------
\* C4: capt_print, constructed while number = 123, writes 123 at every call,
\* whatever has been assigned since to n or to number.
C4_ValueCapture ==
    /\ MainPast(11) => Render(out[5]) = "123 Captured "
    /\ mode = "value" =>
          \A k \in DOMAIN out : Render(out[k]) = "123 Captured "

C4_CalledAfterAssignment ==
    MainPast(11) /\ n = 456 /\ Len(out) = 5

-----------------------------------------------------------------------------
\* C5: find_if returns the first element that n divides, or the end when n
\* divides none; over ArLiteral that is -4 for n = 4 and 9 for n = 1.  The
\* line written names the element found and the divisor searched with,
\* nothing is written when the end is returned, and main writes
\* "-4 can be divided by 4" before ar is sorted and n reassigned.
C5_PredicateSearch ==
    /\ AfterFind =>
          /\ found \in 1..(Len(ar) + 1)
          /\ \A j \in 1..(found - 1) : ~Divides(n, ar[j])
          /\ found <= Len(ar) => Divides(n, ar[found])
    /\ AfterFind /\ ar = ArLiteral /\ n = 4 => ar[found] = -4
    /\ AfterFind /\ ar = ArLiteral /\ n = 1 => ar[found] = 9
    /\ mode = "find" /\ pc > 2 =>
          IF found <= Len(ar)
          THEN /\ Len(out) = 1
               /\ Render(out[1]) =
                     ToString(ar[found]) \o " can be divided by " \o ToString(n)
               /\ cur = << >>
          ELSE out = << >> /\ cur = << >>
    /\ MainPast(2) => Render(out[1]) = "-4 can be divided by 4"
    /\ mode = "main" /\ pc = 3 => ar = ArLiteral /\ n = 4 /\ Len(out) = 1

C5_FoundAndWritten ==
    mode = "main" /\ pc = 3 /\ found = 7 /\ Len(out) = 1

-----------------------------------------------------------------------------
\* C6: during for_each the counter equals the number of elements visited so
\* far that are below the threshold; each call of count_less adds 1 when the
\* element is below the threshold and nothing otherwise; the counter never
\* decreases, the captured threshold never changes, and after the traversal
\* the counter is the number of elements below the threshold.
C6_State ==
    /\ InTraversal => /\ it \in 1..(Len(data) + 1)
                      /\ count = CountBelow(data, it - 1, target)
                      /\ count_less.target = target
    /\ AfterTraversal => /\ count = CountBelow(data, Len(data), target)
                         /\ count_less.target = target

C6_Step ==
    InTraversal =>
        /\ count' >= count
        /\ count_less' = count_less
        /\ it <= Len(data) =>
              count' = count + (IF data[it] < target THEN 1 ELSE 0)

C6_Counting == [] C6_State /\ [][C6_Step]_vars

C6_MixedTraversalDone ==
    /\ mode = "count" /\ pc > 1
    /\ Len(data) = 3 /\ count = 2

-----------------------------------------------------------------------------
\* C7: sort leaves a permutation of ar with non-decreasing magnitudes, for
\* ArLiteral {0,1,-2,3,-4,5,-6,7,-8,9}, which main writes; the comparator is
\* false for two elements of equal magnitude (x with x, x with -x).
C7_State ==
    /\ MainPast(3) => ar = << 0, 1, -2, 3, -4, 5, -6, 7, -8, 9 >>
    /\ MainPast(5) => Render(out[2]) = "0 1 -2 3 -4 5 -6 7 -8 9 "
    /\ mode = "sort" /\ pc > 1 => AbsSorted(ar)
    /\ mode \in {"main", "sort"} =>
          \A i, j \in DOMAIN ar :
              Mag(ar[i]) = Mag(ar[j]) => ~Comp(variant, ar[i], ar[j])

C7_Step ==
    mode \in {"main", "sort"} /\ Sched("sort") =>
        IsPerm(ar, ar') /\ AbsSorted(ar')

C7_ComparatorSort == [] C7_State /\ [][C7_Step]_vars

C7_SortedAndWritten ==
    MainPast(5) /\ ar[1] = 0 /\ ar[10] = 9 /\ Len(out) = 2

-----------------------------------------------------------------------------
\* C8: print_all writes each stored element once, in insertion order, each
\* followed by a space, and leaves the container unchanged; add appends;
\* after add(1), add(2), add(3) main writes "1 2 3 ".
C8_State ==
    MainPast(37) => ints = << 1, 2, 3 >> /\ Render(out[21]) = "1 2 3 "

C8_PrintStep ==
    LET k == Len(cur)
        m == Len(ints)
        printing == \/ mode = "numbers" /\ Len(cur') > k
                    \/ mode = "main" /\ Sched("print_all")
    IN  printing =>
            /\ ints' = ints
            /\ Len(cur') = k + 2 * m
            /\ SubSeq(cur', 1, k) = cur
            /\ \A i \in 1..m : /\ cur'[k + 2 * i - 1] = ToString(ints[i])
                               /\ cur'[k + 2 * i] = " "

C8_AddStep ==
    mode \in {"main", "numbers"} /\ ints' # ints =>
        /\ Len(ints') = Len(ints) + 1
        /\ SubSeq(ints', 1, Len(ints)) = ints

C8_PrintAll == [] C8_State /\ [][C8_PrintStep /\ C8_AddStep]_vars

C8_TwoPrinted ==
    /\ mode = "numbers"
    /\ Len(ints) = 2 /\ ints[1] # ints[2]
    /\ cur = << ToString(ints[1]), " ", ToString(ints[2]), " " >>

-----------------------------------------------------------------------------
\* C9: whatever calls were made before, polite(s) is s followed by " SIR "
\* and println writes exactly the string it is given; main writes
\* "Ben SIR " and then "Bingshiue SIR ".
C9_State ==
    /\ MainPast(6) => msg = "Ben SIR "
    /\ MainPast(7) => Render(out[3]) = "Ben SIR "
    /\ MainPast(8) => Render(out[4]) = "Bingshiue SIR "
    /\ mode = "strings" =>
          /\ msg = "" \/ \E s \in StrInputs : msg = s \o " SIR "
          /\ \A k \in DOMAIN out :
                \/ out[k] = << "" >>
                \/ \E s \in StrInputs : out[k] = << s \o " SIR " >>

C9_Step ==
    mode = "strings" /\ LineWritten =>
        /\ msg' = msg
        /\ \/ Last(out') = << msg >>
           \/ \E s \in StrInputs : Last(out') = << s \o " SIR " >>

C9_IndependentCalls == [] C9_State /\ [][C9_Step]_vars

C9_BothWritten == MainPast(8) /\ Len(out) = 4 /\ msg = "Ben SIR "

-----------------------------------------------------------------------------
\* C10: the callable objects and the closures agree on every element and
\* divisor, so both builds find the same element, sort to the same
\* arrangements and write the same lines.
C10_SameResults ==
    /\ mode \in {"main", "find", "sort"} =>
          /\ \A i \in DOMAIN ar :
                can_divide_call(can_divide(n), ar[i])
                    = lambda_divide_call(lambda_divide(n), ar[i])
          /\ \A i, j \in DOMAIN ar :
                abs_less_call(ar[i], ar[j]) = lambda_abs_less_call(ar[i], ar[j])
    /\ AfterFind =>
          /\ found = find_if(ar, "USE_FUNCTION_OBJECT", n)
          /\ found = find_if(ar, "USE_LAMBDA_EXPRESSION", n)
    /\ mode \in {"main", "sort"} /\ Sched("sort") =>
          sort_outcomes(ar, "USE_FUNCTION_OBJECT")
              = sort_outcomes(ar, "USE_LAMBDA_EXPRESSION")
    /\ (mode = "sort" /\ pc = 3) \/ (mode = "main" /\ pc = 5) =>
          /\ cur = loop_print(ar, 1)
          /\ cur = for_each_print(ar)
    /\ Done => /\ Len(out) = Len(MainOutput)
               /\ \A k \in DOMAIN out : Render(out[k]) = MainOutput[k]

C10_FunctionObjectBuildDone ==
    Done /\ variant = "USE_FUNCTION_OBJECT" /\ Len(out) = 21

====
